---- MODULE Spec2Model ----
(***************************************************************************)
(* Tutorial030_NonParametricStats: the resampling routines of the notebook *)
(* (sign-flip and label-swap randomization tests, bootstrap of a mean, of  *)
(* a correlation and of two correlations, percentile intervals and the     *)
(* empirical p-value), modelled cell by cell.                              *)
(*                                                                         *)
(* Numbers.  The notebook computes in IEEE doubles; the model computes in  *)
(* exact arithmetic and keeps the three IEEE outcomes that matter: a       *)
(* finite value, +-inf (x/0, x # 0) and nan (0/0).  A statistic is kept as *)
(* [kind, sgn, num, den], the value sgn * sqrt(num / den), reduced to      *)
(* lowest terms, so that two equal values are equal records.  A mean is a  *)
(* rational [n, d] in lowest terms.                                        *)
(*                                                                         *)
(* Randomness.  A draw of np.random.rand is k / RandDen for k in RandDraws *)
(* (so 0 and exactly .5 are draws, 1 is not); a draw of                    *)
(* np.random.randint(n) is any k in 0 .. n - 1.                            *)
(*                                                                         *)
(* Specifications.  Spec follows each routine from a fresh kernel, FairSpec *)
(* adds that a for loop keeps running, TwinSpec runs every loop twice on   *)
(* the same draws, and NotebookSpec runs all the code cells top to bottom, *)
(* keeping of each cell what it does to the sizes and lengths.             *)
(***************************************************************************)
EXTENDS Integers, Sequences, FiniteSets, TLC

\* ------------------------------------------------------------- bounds
\* longest data vector (N and S_N range over 1 .. MaxN)
MaxN == 2
\* largest iteration count (num_randomizations, num_bootstraps in 0 .. MaxIter)
MaxIter == 2

\* ------------------------------------------------------------- inputs
\* np.random.rand draws from [0, 1): the model's draws are k / RandDen for
\* the k of RandDraws, that is 0 (below .5), .5 itself and .75 (above .5)
RandDen == 4
RandDraws == {0, 2, 3}
\* the values a data point takes
DataValues == {0, 1}
Vectors(n) == [1 .. n -> DataValues]

\* ------------------------------------------------------------- integers
Abs(x) == IF x < 0 THEN -x ELSE x

\* np.sign on an integer
Sgn(x) == IF x > 0 THEN 1 ELSE IF x < 0 THEN -1 ELSE 0

RECURSIVE GCD(_, _)
GCD(a, b) == IF b = 0 THEN a ELSE GCD(b, a % b)

RECURSIVE SumTo(_, _)
\* v[1] + ... + v[k]
SumTo(v, k) == IF k = 0 THEN 0 ELSE SumTo(v, k - 1) + v[k]

\* np.sum of a vector
Sum(v) == SumTo(v, Len(v))

\* elementwise product of two vectors of one length
Mul(a, b) == [k \in 1 .. Len(a) |-> a[k] * b[k]]

\* ------------------------------------------------------------- statistics values
NaN == [kind |-> "nan", sgn |-> 0, num |-> 0, den |-> 0]
Inf(s) == [kind |-> "inf", sgn |-> s, num |-> 1, den |-> 0]
Zero == [kind |-> "fin", sgn |-> 0, num |-> 0, den |-> 1]

\* s * sqrt(a / b) with a >= 0, b > 0, in lowest terms
Reduced(s, a, b) ==
    IF s = 0 \/ a = 0 THEN Zero
    ELSE [kind |-> "fin", sgn |-> s, num |-> a \div GCD(a, b), den |-> b \div GCD(a, b)]

\* the float s * sqrt(a / b) of three computed numbers, each evaluated once
Root(s, a, b) == CHOOSE r \in {Reduced(t, n, d) : t \in {s}, n \in {a}, d \in {b}} : TRUE

\* unary minus
Neg(x) == [x EXCEPT !.sgn = -x.sgn]

IsNaN(x) == x.kind = "nan"
IsFinite(x) == x.kind = "fin"

RECURSIVE FracGt(_, _, _, _)
\* a/b > c/d for a, c >= 0 and b, d > 0, by whole parts and then the
\* remainders' reciprocals, so that no product is formed
FracGt(a, b, c, d) ==
    IF a \div b # c \div d THEN a \div b > c \div d
    ELSE IF a % b = 0 THEN FALSE
    ELSE IF c % d = 0 THEN TRUE
    ELSE FracGt(d, c % d, b, a % b)

\* the IEEE comparison x > y: false when either side is nan
Gt(x, y) ==
    IF IsNaN(x) \/ IsNaN(y) THEN FALSE
    ELSE IF x.kind = "inf" /\ y.kind = "inf" THEN x.sgn > y.sgn
    ELSE IF x.kind = "inf" THEN x.sgn > 0
    ELSE IF y.kind = "inf" THEN y.sgn < 0
    ELSE IF x.sgn # y.sgn THEN x.sgn > y.sgn
    ELSE IF x.sgn = 0 THEN FALSE
    ELSE IF x.sgn > 0 THEN FracGt(x.num, x.den, y.num, y.den)
    ELSE FracGt(y.num, y.den, x.num, x.den)

\* np.zeros(n)
Zeros(n) == [k \in 1 .. n |-> Zero]

\* ------------------------------------------------------------- rationals
Rat(n, d) ==
    LET g == GCD(Abs(n), Abs(d))
        s == IF d < 0 THEN -1 ELSE 1
    IN [n |-> s * (n \div g), d |-> s * (d \div g)]

RatLe(x, y) == x.n * y.d <= y.n * x.d
RatAdd(x, y) == Rat(x.n * y.d + y.n * x.d, x.d * y.d)
RatSub(x, y) == Rat(x.n * y.d - y.n * x.d, x.d * y.d)
RatMul(x, y) == Rat(x.n * y.n, x.d * y.d)
RatZero == [n |-> 0, d |-> 1]

\* ------------------------------------------------------------- IEEE arithmetic on statistics
\* x / y: nan/anything, inf/inf and 0/0 are nan; x/0 is +-inf; x/inf is 0.  The
\* common factors g of the numerators and h of the denominators are taken out
\* before the products are formed, which keeps the products small and leaves
\* the quotient of two values in lowest terms in lowest terms
Quotient(x, y) ==
    IF IsNaN(x) \/ IsNaN(y) THEN NaN
    ELSE IF x.kind = "inf"
         THEN (IF y.kind = "inf" THEN NaN
               ELSE Inf(IF y.sgn < 0 THEN -x.sgn ELSE x.sgn))
    ELSE IF y.kind = "inf" THEN Zero
    ELSE IF y.sgn = 0 THEN (IF x.sgn = 0 THEN NaN ELSE Inf(x.sgn))
    ELSE IF x.sgn = 0 THEN Zero
    ELSE CHOOSE q \in {[kind |-> "fin", sgn |-> x.sgn * y.sgn,
                        num |-> (x.num \div g) * (y.den \div h),
                        den |-> (x.den \div h) * (y.num \div g)] :
                          g \in {GCD(x.num, y.num)}, h \in {GCD(x.den, y.den)}} : TRUE

\* the operator / of two computed operands: each operand is evaluated once, to
\* the value a, b that Quotient divides
Div(x, y) == CHOOSE q \in {Quotient(a, b) : a \in {x}, b \in {y}} : TRUE

\* x * y, for a finite y
Product(x, y) ==
    IF IsNaN(x) \/ IsNaN(y) THEN NaN
    ELSE IF x.kind = "inf" THEN (IF y.sgn = 0 THEN NaN ELSE Inf(x.sgn * y.sgn))
    ELSE Root(x.sgn * y.sgn, x.num * y.num, x.den * y.den)

\* the operator * of two computed operands, each evaluated once
Times(x, y) == CHOOSE q \in {Product(a, b) : a \in {x}, b \in {y}} : TRUE

\* np.sqrt of an integer: nan below 0
SqrtInt(n) == IF n < 0 THEN NaN ELSE Root(1, n, 1)

\* np.sqrt(1 - x**2) for a correlation x (a finite value with |x| <= 1, or nan)
SqrtOneMinusSq(x) ==
    IF ~IsFinite(x) THEN NaN
    ELSE IF x.num > x.den THEN NaN
    ELSE Root(1, x.den - x.num, x.den)

\* len * len * (population variance of v): len * sum(v^2) - sum(v)^2
VarScaled(v) == Len(v) * Sum(Mul(v, v)) - Sum(v) * Sum(v)

\* np.mean(v, axis=0): nan for an empty v
Mean(v) ==
    IF Len(v) = 0 THEN NaN
    ELSE Root(Sgn(Sum(v)), Sum(v) * Sum(v), Len(v) * Len(v))

\* np.std(v, axis=0), the population (ddof = 0) standard deviation
Std(v) ==
    IF Len(v) = 0 THEN NaN
    ELSE Root(1, VarScaled(v), Len(v) * Len(v))

\* faulty variant of Sub: the magnitude of the difference, np.abs(a - b)
SubAbs(a, b) == [k \in 1 .. Len(a) |-> Abs(a[k] - b[k])]

\* a - b for two vectors of one length
Sub(a, b) == [k \in 1 .. Len(a) |-> a[k] - b[k]]

\* np.std(v, ddof=1), the sample standard deviation: nan for fewer than two
\* values (0 / 0)
SampleStd(v) ==
    IF Len(v) <= 1 THEN NaN
    ELSE Root(1, VarScaled(v), Len(v) * (Len(v) - 1))

\* stats.ttest_rel(a, b).statistic for the differences x = a - b: their mean over
\* its standard error, sample std / sqrt(n)
TTestRel(x) == Div(Mean(x), Div(SampleStd(x), SqrtInt(Len(x))))

\* faulty variant of PairedT: np.sqrt(n) for np.sqrt(n - 1)
PairedTSqrtN(x, n) == Div(Mean(x), Div(Std(x), SqrtInt(n)))

\* np.mean(x) / (np.std(x) / np.sqrt(n - 1)): the hand-written t of the cell
PairedT(x, n) == Div(Mean(x), Div(Std(x), SqrtInt(n - 1)))

\* np.corrcoef(x, y)[0, 1] for two vectors of one length: cov / (std_x * std_y),
\* nan when either vector has no spread
CorrCoef(x, y) ==
    IF Len(x) = 0 THEN NaN
    ELSE CHOOSE r \in {IF V = 0 THEN NaN ELSE Reduced(Sgn(C), C * C, V) :
                          C \in {Len(x) * Sum(Mul(x, y)) - Sum(x) * Sum(y)},
                          V \in {VarScaled(x) * VarScaled(y)}} : TRUE

\* faulty variant of CorrT: the factor np.sqrt(n - 2) left out
CorrTNoDf(r, n) == Div(r, SqrtOneMinusSq(r))

\* (r * np.sqrt(n - 2)) / np.sqrt(1 - r**2)
CorrT(r, n) == Div(Times(r, SqrtInt(n - 2)), SqrtOneMinusSq(r))

\* faulty variant of CountBelow: np.sum(observed >= null), ties counted too
CountBelowOrEqual(observed, null) ==
    Cardinality({k \in 1 .. Len(null) : Gt(observed, null[k]) \/ observed = null[k]})

\* np.sum(observed > null): the null values strictly below observed
CountBelow(observed, null) ==
    Cardinality({k \in 1 .. Len(null) : Gt(observed, null[k])})

\* a p-value: a rational, or nan (0/0), or -inf (1 - c/0 with c > 0)
PNaN == [n |-> 0, d |-> 0]
PNegInf == [n |-> -1, d |-> 0]

\* 2*(1-(np.sum(observed > null) / k))
EmpiricalP(observed, null, k) ==
    LET c == CountBelow(observed, null)
    IN IF k = 0 THEN (IF c = 0 THEN PNaN ELSE PNegInf)
       ELSE Rat(2 * (k - c), k)

\* ------------------------------------------------------------- random draws
\* np.sign(u - .5) for the draw u / RandDen
SignOfDraw(u) == Sgn(2 * u - RandDen)

\* np.random.rand(1) < .5 for the draw u / RandDen
BelowHalf(u) == 2 * u < RandDen

\* faulty variant of RandInt: the upper end included, 0 .. n
RandIntInclusive(n) == 0 .. n

\* the values of np.random.randint(n): 0 .. n - 1
RandInt(n) == 0 .. (n - 1)

\* faulty variant of LoopContinues: np.arange(count - 1), the last index never run
LoopStopsEarly(idx, count) == idx < count - 1

\* for i in np.arange(count): whether the loop runs its body for the next index idx
LoopContinues(idx, count) == idx < count

\* ------------------------------------------------------------- percentiles
RECURSIVE InsertRat(_, _)
\* the sorted sequence s with x put in its place
InsertRat(x, s) ==
    IF s = <<>> THEN <<x>>
    ELSE IF RatLe(x, Head(s)) THEN <<x>> \o s
    ELSE <<Head(s)>> \o InsertRat(x, Tail(s))

\* faulty variant of SortRatTo: the array as it stands, not sorted
NotSortedTo(a, k) == SubSeq(a, 1, k)

RECURSIVE SortRatTo(_, _)
\* a[1 .. k] in ascending order
SortRatTo(a, k) == IF k = 0 THEN <<>> ELSE InsertRat(a[k], SortRatTo(a, k - 1))

\* np.percentile(a, 100 * qn / qd) of a non-empty array of rationals: with
\* h = (len - 1) * qn / qd, the value s[floor h] + (s[floor h + 1] - s[floor h]) * frac h
\* of the sorted array s (linear interpolation between order statistics)
RatPercentile(a, qn, qd) ==
    LET n == Len(a)
        s == SortRatTo(a, n)
        lo == ((n - 1) * qn) \div qd
        hi == IF lo + 1 > n - 1 THEN n - 1 ELSE lo + 1
        g == Rat(((n - 1) * qn) % qd, qd)
    IN RatAdd(s[lo + 1], RatMul(RatSub(s[hi + 1], s[lo + 1]), g))

\* x <= y for two statistics, neither nan
Le(x, y) == ~Gt(x, y)

RECURSIVE InsertRoot(_, _)
InsertRoot(x, s) ==
    IF s = <<>> THEN <<x>>
    ELSE IF Le(x, Head(s)) THEN <<x>> \o s
    ELSE <<Head(s)>> \o InsertRoot(x, Tail(s))

RECURSIVE SortRootTo(_, _)
SortRootTo(a, k) == IF k = 0 THEN <<>> ELSE InsertRoot(a[k], SortRootTo(a, k - 1))

\* np.percentile of a non-empty array of statistics: nan when the array holds a
\* nan; an order statistic when the interpolation has nothing to add; otherwise
\* the interpolation lo + (hi - lo) * g, kept as the record of its three parts
RootPercentile(a, qn, qd) ==
    LET n == Len(a)
        s == SortRootTo(a, n)
        lo == ((n - 1) * qn) \div qd
        hi == IF lo + 1 > n - 1 THEN n - 1 ELSE lo + 1
        g == Rat(((n - 1) * qn) % qd, qd)
    IN IF \E k \in 1 .. n : IsNaN(a[k]) THEN NaN
       ELSE IF g.n = 0 \/ s[lo + 1] = s[hi + 1] THEN s[lo + 1]
       ELSE [kind |-> "lerp", lo |-> s[lo + 1], hi |-> s[hi + 1], g |-> g]

\* np.percentile(a, [2.5, 97.5])
RatInterval(a) == <<RatPercentile(a, 25, 1000), RatPercentile(a, 975, 1000)>>
RootInterval(a) == <<RootPercentile(a, 25, 1000), RootPercentile(a, 975, 1000)>>

RECURSIVE RatSumTo(_, _)
RatSumTo(a, k) == IF k = 0 THEN RatZero ELSE RatAdd(RatSumTo(a, k - 1), a[k])

\* np.mean of an array of rationals: nan for an empty array
RatArrayMean(a) ==
    IF Len(a) = 0 THEN PNaN
    ELSE RatMul(RatSumTo(a, Len(a)), Rat(1, Len(a)))

\* ------------------------------------------------------------- state
VARIABLES
    cell,               \* the code the kernel runs next
    N, S_N,             \* the notebook's global sizes
    d1, d2, d3, d4,     \* the data vectors
    samp_data,
    study_t_val, corr, t_val, obs_corr,
    num_randomizations, num_bootstraps,
    i, j,               \* the loop positions: the next index of each for loop
    rand_u,             \* the draws of np.random.rand in the current iteration
    rand_data, null_t_val, rand_p_value,
    tmp0, tmp1, tmp2, tmp3, tmp4,
    rand_corr, rand_t_val,
    index, boot_data, boot_mean, mean_of_boot_data, CIs,
    corr1, corr2, CIs_1, CIs_2,
    writes,             \* history: how often each slot of the result array was assigned
    draws_used,         \* history: the draws taken from the random source
    twin_tmp0, twin_tmp1,   \* a second run of the loop on the same data: its buffers,
    twin_out, twin_out2,    \* its result arrays
    twin_draws,             \* and the draws it has taken
    nb_cell,            \* the notebook run top to bottom: the code cell to run next,
    nb,                 \* the value of N and S_N and the length of each vector,
    nb_use              \* and the last use of a size on vectors

sizeVars == <<N, S_N>>
dataVars == <<d1, d2, d3, d4, samp_data>>
obsVars == <<study_t_val, t_val, obs_corr>>
countVars == <<num_randomizations, num_bootstraps>>
signFlipVars == <<rand_data, null_t_val>>
swapVars == <<tmp0, rand_corr, rand_t_val>>
bootVars == <<index, tmp2, tmp3, tmp4, boot_data, boot_mean, mean_of_boot_data, corr1, corr2,
              CIs_1, CIs_2>>
twinVars == <<twin_tmp0, twin_tmp1, twin_out, twin_out2, twin_draws>>
programVars == <<cell, sizeVars, dataVars, obsVars, countVars, i, j, rand_u, signFlipVars,
                 rand_p_value, swapVars, tmp1, corr, CIs, bootVars, writes, draws_used,
                 twinVars>>
notebookVars == <<nb_cell, nb, nb_use>>
vars == <<programVars, notebookVars>>

\* what a second run finds in its arrays and buffers when it starts: values
\* left by whatever ran before, none of them one the loop computes
Leftover == 7
LeftoverArray(n) == [k \in 1 .. n |-> Root(1, Leftover * Leftover, 1)]
LeftoverVector(n) == [k \in 1 .. n |-> Leftover + k]

\* a size sz used on vectors of the lengths lens at the index k, and the error
\* numpy raised, if any
Use(sz, lens, k, err) == [size |-> sz, lens |-> lens, idx |-> k, error |-> err]
NoUse == Use(0, {}, 0, "none")

\* a name not yet bound to a number
None == [kind |-> "none", sgn |-> 0, num |-> 0, den |-> 0]

Init ==
    /\ cell = "start"
    /\ N = 0 /\ S_N = 0
    /\ d1 = <<>> /\ d2 = <<>> /\ d3 = <<>> /\ d4 = <<>> /\ samp_data = <<>>
    /\ study_t_val = None /\ corr = None /\ t_val = None /\ obs_corr = None
    /\ num_randomizations = 0 /\ num_bootstraps = 0
    /\ i = 0 /\ j = 0
    /\ rand_u = <<>>
    /\ rand_data = <<>> /\ null_t_val = <<>> /\ rand_p_value = None
    /\ tmp0 = <<>> /\ tmp1 = <<>> /\ tmp2 = <<>> /\ tmp3 = <<>> /\ tmp4 = <<>>
    /\ rand_corr = <<>> /\ rand_t_val = <<>>
    /\ index = <<>> /\ boot_data = <<>> /\ boot_mean = <<>>
    /\ mean_of_boot_data = None /\ CIs = <<>>
    /\ corr1 = <<>> /\ corr2 = <<>> /\ CIs_1 = <<>> /\ CIs_2 = <<>>
    /\ writes = <<>>
    /\ draws_used = 0
    /\ twin_tmp0 = <<>> /\ twin_tmp1 = <<>> /\ twin_out = <<>> /\ twin_out2 = <<>>
    /\ twin_draws = 0
    /\ nb_cell = 1
    /\ nb = [N |-> 0, S_N |-> 0, d1 |-> 0, d2 |-> 0, d3 |-> 0, d4 |-> 0,
             samp_data |-> 0, pop_data |-> 0]
    /\ nb_use = NoUse

\* ------------------------------------------------------------- sign-flip randomization test
\* the data cell of the randomization test: N, d1, d2 and the observed t (the
\* p_value the cell then takes from stats.t.cdf is not kept: nothing reads it)
PairedData ==
    /\ cell = "start"
    /\ \E n \in 1 .. MaxN : \E a \in Vectors(n) : \E b \in Vectors(n) :
         /\ N' = n
         /\ d1' = a
         /\ d2' = b
         /\ study_t_val' = PairedT(Sub(a, b), n)
    /\ cell' = "signflip_setup"
    /\ UNCHANGED <<S_N, d3, d4, samp_data, corr, t_val, obs_corr, countVars, i, j, rand_u,
                   signFlipVars, rand_p_value, swapVars, tmp1, CIs, bootVars, writes,
                   draws_used>>
    /\ UNCHANGED twinVars
    /\ UNCHANGED notebookVars

\* num_randomizations and the result array of zeros
SignFlipSetupBody ==
    /\ cell = "signflip_setup"
    /\ \E k \in 0 .. MaxIter :
         /\ num_randomizations' = k
         /\ null_t_val' = Zeros(k)
         /\ writes' = [s \in 1 .. k |-> 0]
    /\ i' = 0
    /\ cell' = "signflip_loop"
    /\ UNCHANGED <<sizeVars, dataVars, obsVars, corr, num_bootstraps, j, rand_u, rand_data,
                   rand_p_value, swapVars, tmp1, CIs, bootVars, draws_used>>
    /\ UNCHANGED notebookVars

SignFlipSetup == SignFlipSetupBody /\ UNCHANGED twinVars

\* SignFlipSetup with the second run beside it
TwinSignFlipSetup ==
    /\ SignFlipSetupBody
    /\ twin_out' = LeftoverArray(num_randomizations')
    /\ UNCHANGED <<twin_tmp0, twin_tmp1, twin_out2, twin_draws>>

\* rand_data of one iteration: np.sign(np.random.rand(N, 1) - .5) * (d1 - d2)
SignFlipped(u, diff) == [k \in 1 .. Len(diff) |-> SignOfDraw(u[k]) * diff[k]]

\* the body of the loop for the draws u of one iteration
SignFlipIterBody(u) ==
    /\ rand_data' = SignFlipped(u, Sub(d1, d2))
    /\ null_t_val' = [null_t_val EXCEPT ![i + 1] = PairedT(rand_data', N)]
    /\ writes' = [writes EXCEPT ![i + 1] = @ + 1]
    /\ draws_used' = draws_used + N
    /\ i' = i + 1
    /\ UNCHANGED <<cell, sizeVars, dataVars, obsVars, corr, countVars, j, rand_u,
                   rand_p_value, swapVars, tmp1, CIs, bootVars>>
    /\ UNCHANGED notebookVars

\* one pass of the loop, while an index is left
SignFlipIter ==
    /\ cell = "signflip_loop"
    /\ LoopContinues(i, num_randomizations)
    /\ \E u \in [1 .. N -> RandDraws] : SignFlipIterBody(u) /\ UNCHANGED twinVars

\* SignFlipIter with the second run beside it, on the same draws
TwinSignFlipIter ==
    /\ cell = "signflip_loop"
    /\ LoopContinues(i, num_randomizations)
    /\ \E u \in [1 .. N -> RandDraws] :
         /\ SignFlipIterBody(u)
         /\ twin_out' = [twin_out EXCEPT
                            ![i + 1] = PairedT(SignFlipped(u, Sub(d1, d2)), N)]
         /\ twin_draws' = twin_draws + N
         /\ UNCHANGED <<twin_tmp0, twin_tmp1, twin_out2>>

\* the loop is over: the randomization-based p-value
SignFlipPValue ==
    /\ cell = "signflip_loop"
    /\ ~LoopContinues(i, num_randomizations)
    /\ rand_p_value' = EmpiricalP(study_t_val, null_t_val, num_randomizations)
    /\ cell' = "signflip_done"
    /\ UNCHANGED <<sizeVars, dataVars, obsVars, corr, countVars, i, j, rand_u, signFlipVars,
                   swapVars, tmp1, CIs, bootVars, writes, draws_used>>
    /\ UNCHANGED twinVars
    /\ UNCHANGED notebookVars

\* ------------------------------------------------------------- label-swap randomization test
\* the data cell of the correlation example: d1, d2 (in the notebook two fixed
\* vectors of 13 values; here any two vectors of one length), N = len(d1), the
\* observed correlation and its t
CorrData ==
    /\ cell = "start"
    /\ \E n \in 1 .. MaxN : \E a \in Vectors(n) : \E b \in Vectors(n) :
         /\ d1' = a
         /\ d2' = b
         /\ N' = Len(a)
         /\ corr' = CorrCoef(a, b)
         /\ t_val' = CorrT(CorrCoef(a, b), Len(a))
    /\ cell' = "labelswap_setup"
    /\ UNCHANGED <<S_N, d3, d4, samp_data, study_t_val, obs_corr, countVars, i, j, rand_u,
                   signFlipVars, rand_p_value, swapVars, tmp1, CIs, bootVars, writes,
                   draws_used>>
    /\ UNCHANGED twinVars
    /\ UNCHANGED notebookVars

\* the two vectors the notebook's data cell holds
NotebookD1 == <<2, 1, 2, 1, 0, 1, 8, 9, 11, 9, 11, 14, 13>>
NotebookD2 == <<2, 3, 3, 2, 1, 1, 7, 10, 12, 10, 10, 13, 12>>

\* the data cell of the correlation example as the notebook has it, on its own
\* two vectors: N = len(d1), the observed correlation and its t.  The loop of
\* the next cell is followed from CorrData, on vectors short enough for every
\* outcome of its draws to be gone through
NotebookCorrData ==
    /\ cell = "start"
    /\ d1' = NotebookD1
    /\ d2' = NotebookD2
    /\ N' = Len(NotebookD1)
    /\ corr' = CorrCoef(NotebookD1, NotebookD2)
    /\ t_val' = CorrT(corr', N')
    /\ cell' = "corr_observed"
    /\ UNCHANGED <<S_N, d3, d4, samp_data, study_t_val, obs_corr, countVars, i, j, rand_u,
                   signFlipVars, rand_p_value, swapVars, tmp1, CIs, bootVars, writes,
                   draws_used>>
    /\ UNCHANGED twinVars
    /\ UNCHANGED notebookVars

\* np.zeros(n) as a data buffer
ZeroVector(n) == [k \in 1 .. n |-> 0]

\* num_randomizations, the result arrays and the two buffers
LabelSwapSetupBody ==
    /\ cell = "labelswap_setup"
    /\ \E k \in 0 .. MaxIter :
         /\ num_randomizations' = k
         /\ rand_corr' = Zeros(k)
         /\ rand_t_val' = Zeros(k)
         /\ writes' = [s \in 1 .. k |-> 0]
    /\ tmp0' = ZeroVector(N)
    /\ tmp1' = ZeroVector(N)
    /\ i' = 0
    /\ j' = 0
    /\ cell' = "labelswap_loop"
    /\ UNCHANGED <<sizeVars, dataVars, obsVars, corr, num_bootstraps, rand_u, signFlipVars,
                   rand_p_value, CIs, bootVars, draws_used>>
    /\ UNCHANGED notebookVars

LabelSwapSetup == LabelSwapSetupBody /\ UNCHANGED twinVars

\* LabelSwapSetup with the second run beside it
TwinLabelSwapSetup ==
    /\ LabelSwapSetupBody
    /\ twin_out' = LeftoverArray(num_randomizations')
    /\ twin_out2' = LeftoverArray(num_randomizations')
    /\ twin_tmp0' = LeftoverVector(N)
    /\ twin_tmp1' = LeftoverVector(N)
    /\ UNCHANGED twin_draws

\* faulty variant of LabelSwapWrite: += for =, the value added to what buf[k] holds
LabelSwapWriteAdds(buf, k, u, x, y) ==
    [buf EXCEPT ![k] = @ + (IF BelowHalf(u) THEN x[k] ELSE y[k])]

\* faulty variant of LabelSwapWrite: the else branch missing, so that buf[k]
\* keeps what an earlier iteration wrote when the draw is not below .5
LabelSwapWriteNoElse(buf, k, u, x, y) ==
    IF BelowHalf(u) THEN [buf EXCEPT ![k] = x[k]] ELSE buf

\* the if/else of the inner loop on one buffer: buf[k] = x[k] when the draw is
\* below .5, buf[k] = y[k] otherwise
LabelSwapWrite(buf, k, u, x, y) ==
    [buf EXCEPT ![k] = IF BelowHalf(u) THEN x[k] ELSE y[k]]

\* faulty variant of LabelSwapInnerBody: the buffers are the data themselves
\* (tmp0 = d1, tmp1 = d2 for np.zeros(N)), so every write lands in d1 and d2 too
LabelSwapInnerAliased ==
    /\ cell = "labelswap_loop"
    /\ LoopContinues(i, num_randomizations)
    /\ LoopContinues(j, N)
    /\ \E u \in RandDraws :
         /\ rand_u' = (IF j = 0 THEN <<u>> ELSE Append(rand_u, u))
         /\ tmp0' = LabelSwapWrite(tmp0, j + 1, u, d1, d2)
         /\ tmp1' = LabelSwapWrite(tmp1, j + 1, u, d2, d1)
         /\ d1' = LabelSwapWrite(d1, j + 1, u, d1, d2)
         /\ d2' = LabelSwapWrite(d2, j + 1, u, d2, d1)
    /\ j' = j + 1
    /\ draws_used' = draws_used + 1
    /\ UNCHANGED <<cell, sizeVars, d3, d4, samp_data, obsVars, corr, countVars, i,
                   signFlipVars, rand_p_value, rand_corr, rand_t_val, CIs, bootVars, writes>>
    /\ UNCHANGED notebookVars

\* one pass of the inner loop: index j, one draw
LabelSwapInnerBody ==
    /\ cell = "labelswap_loop"
    /\ LoopContinues(i, num_randomizations)
    /\ LoopContinues(j, N)
    /\ \E u \in RandDraws :
         /\ rand_u' = (IF j = 0 THEN <<u>> ELSE Append(rand_u, u))
         /\ tmp0' = LabelSwapWrite(tmp0, j + 1, u, d1, d2)
         /\ tmp1' = LabelSwapWrite(tmp1, j + 1, u, d2, d1)
    /\ j' = j + 1
    /\ draws_used' = draws_used + 1
    /\ UNCHANGED <<cell, sizeVars, dataVars, obsVars, corr, countVars, i, signFlipVars,
                   rand_p_value, rand_corr, rand_t_val, CIs, bootVars, writes>>
    /\ UNCHANGED notebookVars

LabelSwapInner == LabelSwapInnerBody /\ UNCHANGED twinVars

\* LabelSwapInner with the second run beside it
TwinLabelSwapInner ==
    /\ LabelSwapInnerBody
    /\ twin_tmp0' = LabelSwapWrite(twin_tmp0, j + 1, rand_u'[j + 1], d1, d2)
    /\ twin_tmp1' = LabelSwapWrite(twin_tmp1, j + 1, rand_u'[j + 1], d2, d1)
    /\ twin_draws' = twin_draws + 1
    /\ UNCHANGED <<twin_out, twin_out2>>

\* the inner loop is over: the statistic of iteration i
LabelSwapStatBody ==
    /\ cell = "labelswap_loop"
    /\ LoopContinues(i, num_randomizations)
    /\ ~LoopContinues(j, N)
    /\ rand_corr' = [rand_corr EXCEPT ![i + 1] = CorrCoef(tmp0, tmp1)]
    /\ rand_t_val' = [rand_t_val EXCEPT ![i + 1] = CorrT(rand_corr'[i + 1], N)]
    /\ writes' = [writes EXCEPT ![i + 1] = @ + 1]
    /\ i' = i + 1
    /\ j' = 0
    /\ UNCHANGED <<cell, sizeVars, dataVars, obsVars, corr, countVars, rand_u, signFlipVars,
                   rand_p_value, tmp0, tmp1, CIs, bootVars, draws_used>>
    /\ UNCHANGED notebookVars

LabelSwapStat == LabelSwapStatBody /\ UNCHANGED twinVars

\* LabelSwapStat with the second run beside it
TwinLabelSwapStat ==
    /\ LabelSwapStatBody
    /\ twin_out2' = [twin_out2 EXCEPT ![i + 1] = CorrCoef(twin_tmp0, twin_tmp1)]
    /\ twin_out' = [twin_out EXCEPT ![i + 1] = CorrT(twin_out2'[i + 1], N)]
    /\ UNCHANGED <<twin_tmp0, twin_tmp1, twin_draws>>

\* the outer loop is over: the randomization-based p-value
LabelSwapPValue ==
    /\ cell = "labelswap_loop"
    /\ ~LoopContinues(i, num_randomizations)
    /\ rand_p_value' = EmpiricalP(t_val, rand_t_val, num_randomizations)
    /\ cell' = "labelswap_done"
    /\ UNCHANGED <<sizeVars, dataVars, obsVars, corr, countVars, i, j, rand_u, signFlipVars,
                   swapVars, tmp1, CIs, bootVars, writes, draws_used>>
    /\ UNCHANGED twinVars
    /\ UNCHANGED notebookVars

\* ------------------------------------------------------------- bootstrap
\* v[idx]: numpy indexing of a vector by a vector of 0-based indices
Take(v, idx) == [k \in 1 .. Len(idx) |-> v[idx[k] + 1]]

\* whether v[idx] is defined; numpy raises IndexError otherwise
InRange(idx, n) == \A k \in 1 .. Len(idx) : idx[k] \in 0 .. (n - 1)

\* np.random.randint(n, size=n): n indices drawn with replacement
IndexVectors(n) == [1 .. n -> RandInt(n)]

\* faulty variant of RatMean: np.sum for np.mean, the sum not divided by the length
RatMeanNoDivide(v) == Rat(Sum(v), 1)

\* np.mean of a vector of integers, as a rational
RatMean(v) == Rat(Sum(v), Len(v))

\* np.zeros(n) as an array of means
RatZeros(n) == [k \in 1 .. n |-> RatZero]

\* the size of the population the sample is taken from
PopN == 100000

\* the sample of the bootstrap of the mean: S_N values of the population
\* (pop_data[np.random.permutation(N)[0:S_N]]), and the result array
SampleDataBody ==
    /\ cell = "start"
    /\ N' = PopN
    /\ \E n \in 1 .. MaxN : \E a \in Vectors(n) :
         /\ S_N' = n
         /\ samp_data' = a
    /\ \E k \in 0 .. MaxIter :
         /\ num_bootstraps' = k
         /\ boot_mean' = RatZeros(k)
         /\ writes' = [s \in 1 .. k |-> 0]
    /\ i' = 0
    /\ cell' = "bootmean_loop"
    /\ UNCHANGED <<d1, d2, d3, d4, obsVars, corr, num_randomizations, j, rand_u,
                   signFlipVars, rand_p_value, swapVars, tmp1, CIs, index, tmp2, tmp3, tmp4,
                   boot_data, mean_of_boot_data, corr1, corr2, CIs_1, CIs_2, draws_used>>
    /\ UNCHANGED notebookVars

SampleData == SampleDataBody /\ UNCHANGED twinVars

\* SampleData with the second run beside it
TwinSampleData ==
    /\ SampleDataBody
    /\ twin_out' = [k \in 1 .. num_bootstraps' |-> Rat(Leftover, 1)]
    /\ UNCHANGED <<twin_tmp0, twin_tmp1, twin_out2, twin_draws>>

\* one pass of the loop body: boot_data = samp_data[np.random.randint(S_N, size=S_N)]
BootMeanIterBody ==
    /\ cell = "bootmean_loop"
    /\ LoopContinues(i, num_bootstraps)
    /\ \E idx \in IndexVectors(S_N) :
         /\ rand_u' = idx
         /\ IF InRange(idx, Len(samp_data))
            THEN /\ boot_data' = Take(samp_data, idx)
                 /\ boot_mean' = [boot_mean EXCEPT ![i + 1] = RatMean(boot_data')]
                 /\ writes' = [writes EXCEPT ![i + 1] = @ + 1]
                 /\ i' = i + 1
                 /\ cell' = cell
            ELSE /\ cell' = "IndexError"
                 /\ UNCHANGED <<boot_data, boot_mean, writes, i>>
    /\ draws_used' = draws_used + S_N
    /\ UNCHANGED <<sizeVars, dataVars, obsVars, corr, countVars, j, signFlipVars,
                   rand_p_value, swapVars, tmp1, CIs, index, tmp2, tmp3, tmp4,
                   mean_of_boot_data, corr1, corr2, CIs_1, CIs_2>>
    /\ UNCHANGED notebookVars

BootMeanIter == BootMeanIterBody /\ UNCHANGED twinVars

\* BootMeanIter with the second run beside it
TwinBootMeanIter ==
    /\ BootMeanIterBody
    /\ twin_out' = IF cell' = "IndexError" THEN twin_out
                   ELSE [twin_out EXCEPT ![i + 1] = RatMean(Take(samp_data, rand_u'))]
    /\ twin_draws' = twin_draws + S_N
    /\ UNCHANGED <<twin_tmp0, twin_tmp1, twin_out2>>

\* the cell after the loop: the mean of the bootstrapped means and their 95%
\* interval.  np.percentile of an empty array is nan in one numpy and an
\* IndexError in another
BootMeanCI ==
    /\ cell = "bootmean_loop"
    /\ ~LoopContinues(i, num_bootstraps)
    /\ mean_of_boot_data' = RatArrayMean(boot_mean)
    /\ IF Len(boot_mean) > 0
       THEN /\ CIs' = RatInterval(boot_mean)
            /\ cell' = "bootmean_done"
       ELSE \/ /\ CIs' = <<PNaN, PNaN>>
               /\ cell' = "bootmean_done"
            \/ /\ CIs' = CIs
               /\ cell' = "IndexError"
    /\ UNCHANGED <<sizeVars, dataVars, obsVars, corr, countVars, i, j, rand_u, signFlipVars,
                   rand_p_value, swapVars, tmp1, index, tmp2, tmp3, tmp4, boot_data,
                   boot_mean, corr1, corr2, CIs_1, CIs_2, writes, draws_used>>
    /\ UNCHANGED twinVars
    /\ UNCHANGED notebookVars

\* the outlier put at the end of d1 and of d2
Outlier1 == 20
Outlier2 == 15

\* the data cell of the bootstrap of a correlation: N, two random vectors with
\* the outlier at the end, the observed correlation
OutlierData ==
    /\ cell = "start"
    /\ \E n \in 1 .. MaxN : \E a \in Vectors(n) : \E b \in Vectors(n) :
         /\ N' = n
         /\ d1' = [a EXCEPT ![n] = Outlier1]
         /\ d2' = [b EXCEPT ![n] = Outlier2]
         /\ obs_corr' = CorrCoef([a EXCEPT ![n] = Outlier1], [b EXCEPT ![n] = Outlier2])
    /\ cell' = "bootcorr_setup"
    /\ UNCHANGED <<S_N, d3, d4, samp_data, study_t_val, t_val, corr, countVars, i, j, rand_u,
                   signFlipVars, rand_p_value, swapVars, tmp1, CIs, bootVars, writes,
                   draws_used>>
    /\ UNCHANGED twinVars
    /\ UNCHANGED notebookVars

\* num_bootstraps and the result array
BootCorrSetupBody ==
    /\ cell = "bootcorr_setup"
    /\ \E k \in 0 .. MaxIter :
         /\ num_bootstraps' = k
         /\ corr' = Zeros(k)
         /\ writes' = [s \in 1 .. k |-> 0]
    /\ i' = 0
    /\ cell' = "bootcorr_loop"
    /\ UNCHANGED <<sizeVars, dataVars, obsVars, num_randomizations, j, rand_u, signFlipVars,
                   rand_p_value, swapVars, tmp1, CIs, bootVars, draws_used>>
    /\ UNCHANGED notebookVars

BootCorrSetup == BootCorrSetupBody /\ UNCHANGED twinVars

\* BootCorrSetup with the second run beside it
TwinBootCorrSetup ==
    /\ BootCorrSetupBody
    /\ twin_out' = LeftoverArray(num_bootstraps')
    /\ UNCHANGED <<twin_tmp0, twin_tmp1, twin_out2, twin_draws>>

\* one pass of the loop body: index, tmp1 = d1[index], tmp2 = d2[index], corr[i]
BootCorrIterBody ==
    /\ cell = "bootcorr_loop"
    /\ LoopContinues(i, num_bootstraps)
    /\ \E idx \in IndexVectors(N) :
         /\ index' = idx
         /\ IF InRange(idx, Len(d1)) /\ InRange(idx, Len(d2))
            THEN /\ tmp1' = Take(d1, idx)
                 /\ tmp2' = Take(d2, idx)
                 /\ corr' = [corr EXCEPT ![i + 1] = CorrCoef(tmp1', tmp2')]
                 /\ writes' = [writes EXCEPT ![i + 1] = @ + 1]
                 /\ i' = i + 1
                 /\ cell' = cell
            ELSE /\ cell' = "IndexError"
                 /\ UNCHANGED <<tmp1, tmp2, corr, writes, i>>
    /\ draws_used' = draws_used + N
    /\ UNCHANGED <<sizeVars, dataVars, obsVars, countVars, j, rand_u, signFlipVars,
                   rand_p_value, swapVars, CIs, tmp3, tmp4, boot_data, boot_mean,
                   mean_of_boot_data, corr1, corr2, CIs_1, CIs_2>>
    /\ UNCHANGED notebookVars

BootCorrIter == BootCorrIterBody /\ UNCHANGED twinVars

\* BootCorrIter with the second run beside it
TwinBootCorrIter ==
    /\ BootCorrIterBody
    /\ twin_out' = IF cell' = "IndexError" THEN twin_out
                   ELSE [twin_out EXCEPT
                            ![i + 1] = CorrCoef(Take(d1, index'), Take(d2, index'))]
    /\ twin_draws' = twin_draws + N
    /\ UNCHANGED <<twin_tmp0, twin_tmp1, twin_out2>>

\* the loop is over: the 95% interval of the bootstrapped correlations
BootCorrCI ==
    /\ cell = "bootcorr_loop"
    /\ ~LoopContinues(i, num_bootstraps)
    /\ IF Len(corr) > 0
       THEN /\ CIs' = RootInterval(corr)
            /\ cell' = "bootcorr_done"
       ELSE \/ /\ CIs' = <<NaN, NaN>>
               /\ cell' = "bootcorr_done"
            \/ /\ CIs' = CIs
               /\ cell' = "IndexError"
    /\ UNCHANGED <<sizeVars, dataVars, obsVars, corr, countVars, i, j, rand_u, signFlipVars,
                   rand_p_value, swapVars, tmp1, bootVars, writes, draws_used>>
    /\ UNCHANGED twinVars
    /\ UNCHANGED notebookVars

\* np.linspace(.1, top, N) in whole steps: the k-th point of a ramp of the given slope
Ramp(n, slope) == [k \in 1 .. n |-> slope * k]

\* a + b for two vectors of one length
Add(a, b) == [k \in 1 .. Len(a) |-> a[k] + b[k]]

\* the data cell of the two conditions: N and four vectors, each noise on a
\* ramp (d1, d2 on one ramp, d3 on a steeper one, d4 on one so shallow that the
\* noise decides the order of its values: flat here); the noise of d3 and d4 is
\* taken to be that of d1 and d2
TwoCondData ==
    /\ cell = "start"
    /\ \E n \in 1 .. MaxN : \E a \in Vectors(n) : \E b \in Vectors(n) :
         /\ N' = n
         /\ d1' = Add(a, Ramp(n, 2))
         /\ d2' = Add(b, Ramp(n, 2))
         /\ d3' = Add(a, Ramp(n, 3))
         /\ d4' = Add(b, Ramp(n, 0))
    /\ cell' = "boottwo_setup"
    /\ UNCHANGED <<S_N, samp_data, obsVars, corr, countVars, i, j, rand_u, signFlipVars,
                   rand_p_value, swapVars, tmp1, CIs, bootVars, writes, draws_used>>
    /\ UNCHANGED twinVars
    /\ UNCHANGED notebookVars

\* num_bootstraps and the two result arrays
BootTwoSetupBody ==
    /\ cell = "boottwo_setup"
    /\ \E k \in 0 .. MaxIter :
         /\ num_bootstraps' = k
         /\ corr1' = Zeros(k)
         /\ corr2' = Zeros(k)
         /\ writes' = [s \in 1 .. k |-> 0]
    /\ i' = 0
    /\ cell' = "boottwo_loop"
    /\ UNCHANGED <<sizeVars, dataVars, obsVars, corr, num_randomizations, j, rand_u,
                   signFlipVars, rand_p_value, swapVars, tmp1, CIs, index, tmp2, tmp3, tmp4,
                   boot_data, boot_mean, mean_of_boot_data, CIs_1, CIs_2, draws_used>>
    /\ UNCHANGED notebookVars

BootTwoSetup == BootTwoSetupBody /\ UNCHANGED twinVars

\* BootTwoSetup with the second run beside it
TwinBootTwoSetup ==
    /\ BootTwoSetupBody
    /\ twin_out' = LeftoverArray(num_bootstraps')
    /\ twin_out2' = LeftoverArray(num_bootstraps')
    /\ UNCHANGED <<twin_tmp0, twin_tmp1, twin_draws>>

\* one pass of the loop body: index, tmp1 .. tmp4, corr1[i], corr2[i]
BootTwoIterBody ==
    /\ cell = "boottwo_loop"
    /\ LoopContinues(i, num_bootstraps)
    /\ \E idx \in IndexVectors(N) :
         /\ index' = idx
         /\ IF /\ InRange(idx, Len(d1)) /\ InRange(idx, Len(d2))
               /\ InRange(idx, Len(d3)) /\ InRange(idx, Len(d4))
            THEN /\ tmp1' = Take(d1, idx)
                 /\ tmp2' = Take(d2, idx)
                 /\ tmp3' = Take(d3, idx)
                 /\ tmp4' = Take(d4, idx)
                 /\ corr1' = [corr1 EXCEPT ![i + 1] = CorrCoef(tmp1', tmp2')]
                 /\ corr2' = [corr2 EXCEPT ![i + 1] = CorrCoef(tmp3', tmp4')]
                 /\ writes' = [writes EXCEPT ![i + 1] = @ + 1]
                 /\ i' = i + 1
                 /\ cell' = cell
            ELSE /\ cell' = "IndexError"
                 /\ UNCHANGED <<tmp1, tmp2, tmp3, tmp4, corr1, corr2, writes, i>>
    /\ draws_used' = draws_used + N
    /\ UNCHANGED <<sizeVars, dataVars, obsVars, corr, countVars, j, rand_u, signFlipVars,
                   rand_p_value, swapVars, CIs, boot_data, boot_mean, mean_of_boot_data,
                   CIs_1, CIs_2>>
    /\ UNCHANGED notebookVars

BootTwoIter == BootTwoIterBody /\ UNCHANGED twinVars

\* BootTwoIter with the second run beside it
TwinBootTwoIter ==
    /\ BootTwoIterBody
    /\ twin_out' = IF cell' = "IndexError" THEN twin_out
                   ELSE [twin_out EXCEPT
                            ![i + 1] = CorrCoef(Take(d1, index'), Take(d2, index'))]
    /\ twin_out2' = IF cell' = "IndexError" THEN twin_out2
                    ELSE [twin_out2 EXCEPT
                             ![i + 1] = CorrCoef(Take(d3, index'), Take(d4, index'))]
    /\ twin_draws' = twin_draws + N
    /\ UNCHANGED <<twin_tmp0, twin_tmp1>>

\* the loop is over: the 95% interval of each condition's correlations
BootTwoCI ==
    /\ cell = "boottwo_loop"
    /\ ~LoopContinues(i, num_bootstraps)
    /\ IF Len(corr1) > 0
       THEN /\ CIs_1' = RootInterval(corr1)
            /\ CIs_2' = RootInterval(corr2)
            /\ cell' = "boottwo_done"
       ELSE \/ /\ CIs_1' = <<NaN, NaN>>
               /\ CIs_2' = <<NaN, NaN>>
               /\ cell' = "boottwo_done"
            \/ /\ UNCHANGED <<CIs_1, CIs_2>>
               /\ cell' = "IndexError"
    /\ UNCHANGED <<sizeVars, dataVars, obsVars, corr, countVars, i, j, rand_u, signFlipVars,
                   rand_p_value, swapVars, tmp1, CIs, index, tmp2, tmp3, tmp4, boot_data,
                   boot_mean, mean_of_boot_data, corr1, corr2, writes, draws_used>>
    /\ UNCHANGED twinVars
    /\ UNCHANGED notebookVars

Next ==
    \/ PairedData
    \/ SignFlipSetup
    \/ SignFlipIter
    \/ SignFlipPValue
    \/ CorrData
    \/ NotebookCorrData
    \/ LabelSwapSetup
    \/ LabelSwapInner
    \/ LabelSwapStat
    \/ LabelSwapPValue
    \/ SampleData
    \/ BootMeanIter
    \/ BootMeanCI
    \/ OutlierData
    \/ BootCorrSetup
    \/ BootCorrIter
    \/ BootCorrCI
    \/ TwoCondData
    \/ BootTwoSetup
    \/ BootTwoIter
    \/ BootTwoCI

Spec == Init /\ [][Next]_vars

\* two runs of each loop side by side: the second starts from arrays and
\* buffers holding leftover values and takes the very draws the first takes
TwinNext ==
    \/ PairedData
    \/ TwinSignFlipSetup
    \/ TwinSignFlipIter
    \/ SignFlipPValue
    \/ CorrData
    \/ NotebookCorrData
    \/ TwinLabelSwapSetup
    \/ TwinLabelSwapInner
    \/ TwinLabelSwapStat
    \/ LabelSwapPValue
    \/ TwinSampleData
    \/ TwinBootMeanIter
    \/ BootMeanCI
    \/ OutlierData
    \/ TwinBootCorrSetup
    \/ TwinBootCorrIter
    \/ BootCorrCI
    \/ TwoCondData
    \/ TwinBootTwoSetup
    \/ TwinBootTwoIter
    \/ BootTwoCI

TwinSpec == Init /\ [][TwinNext]_vars

\* one step of the body of a resampling loop
LoopStep ==
    \/ SignFlipIter
    \/ LabelSwapInner
    \/ LabelSwapStat
    \/ BootMeanIter
    \/ BootCorrIter
    \/ BootTwoIter

\* the interpreter, once in a for loop, keeps running its body while there is
\* an index left
FairSpec == Spec /\ WF_vars(LoopStep)

\* ------------------------------------------------------------- the notebook top to bottom
\* The code cells in the order of the notebook, after the import cell, each
\* kept to what it does to N, S_N and the lengths of the vectors and to the use
\* it makes of a size:
\*    1 .. 4  the data of a study            5  the sign-flip loop
\*    6  the correlation data                7  the label-swap loop
\*    8  the population and a first sample   9  the repeated experiments
\*   10  the sample of the bootstrap        11  the bootstrap of the mean
\*   12  the outlier data                   13  the bootstrap of the correlation
\*   14  the data of the two conditions     15  the bootstrap of the two correlations
\* nb_cell is the cell to run next: 16 when the run is over, 0 when a cell
\* has stopped on an error.

\* the sizes the cells give N and S_N
StudyN == 100
FirstSampleN == 10
ExperimentSampleN == 2
BootSampleN == 20
OutlierN == 16
TwoCondN == 16

\* faulty variant of NextCell: the outlier data cell is skipped
NextCellSkipsData(c) == IF c = 11 THEN 13 ELSE c + 1

\* the cell run after cell c
NextCell(c) == c + 1

Min(a, b) == IF a < b THEN a ELSE b

\* an elementwise operation of an array of sz rows and vectors of the lengths
\* lens: numpy stretches a length of 1 and raises ValueError on any other mismatch
ElementwiseError(sz, lens) ==
    IF \E l \in lens \cup {sz} : \E m \in lens \cup {sz} : l # m /\ l # 1 /\ m # 1
    THEN "ValueError"
    ELSE "none"

\* v[k] for vectors of the lengths lens: IndexError when k is beyond one of them
IndexingError(lens, k) ==
    IF \E l \in lens : k >= l THEN "IndexError" ELSE "none"

\* element k of an elementwise operation of sz rows on the vectors named in vecs,
\* b giving the lengths
ElementwiseUse(b, sz, vecs, k) ==
    Use(sz, {b[v] : v \in vecs}, k, ElementwiseError(sz, {b[v] : v \in vecs}))

\* the vectors named in vecs taken at an index k drawn below sz
IndexingUse(b, sz, vecs, k) ==
    Use(sz, {b[v] : v \in vecs}, k, IndexingError({b[v] : v \in vecs}, k))

\* cell c runs: the names are bound as in b, a size is used as in use, and the
\* kernel goes on to the next cell unless the cell raised
RunCell(c, b, use) ==
    /\ nb_cell = c
    /\ nb' = b
    /\ nb_use' = use
    /\ nb_cell' = IF use.error = "none" THEN NextCell(c) ELSE 0
    /\ UNCHANGED programVars

\* N = 100; d1 and d2 are N draws of np.random.randn each (N rows when they
\* are matrices), and the t of d1 against d2 is taken
RunStudyData(c) ==
    /\ c \in 1 .. 4
    /\ \E k \in RandInt(StudyN) :
         LET b == [nb EXCEPT !.N = StudyN, !.d1 = StudyN, !.d2 = StudyN]
         IN RunCell(c, b, ElementwiseUse(b, b.N, {"d1", "d2"}, k))

\* np.sign(np.random.rand(N, num_studies) - .5) * (d1 - d2), and np.sqrt(N - 1)
RunSignFlip ==
    \E k \in RandInt(nb.N) :
        RunCell(5, nb, ElementwiseUse(nb, nb.N, {"d1", "d2"}, k))

\* d1, d2 = the two arrays; N = len(d1); np.corrcoef(d1, d2), np.sqrt(N - 2)
RunCorrData ==
    LET b == [nb EXCEPT !.d1 = Len(NotebookD1), !.d2 = Len(NotebookD2),
                        !.N = Len(NotebookD1)]
    IN \E k \in RandInt(b.N) :
           RunCell(6, b, ElementwiseUse(b, b.N, {"d1", "d2"}, k))

\* for j in np.arange(N): d1[j], d2[j]
RunLabelSwap ==
    \E k \in RandInt(nb.N) :
        RunCell(7, nb, IndexingUse(nb, nb.N, {"d1", "d2"}, k))

\* an index held by np.random.permutation(n)[0:s] is any of 0 .. n - 1: the
\* model goes through the s least and the s greatest of them
PermutationHead(n, s) == (0 .. (Min(s, n) - 1)) \cup ((n - Min(s, n)) .. (n - 1))

\* S_N = s; samp_data = pop_data[np.random.permutation(N)[0:S_N]] in the state b
Resample(c, b, s) ==
    \E k \in PermutationHead(b.N, s) :
        RunCell(c, [b EXCEPT !.S_N = s, !.samp_data = Min(s, b.N)],
                IndexingUse(b, b.N, {"pop_data"}, k))

\* N = 100000; pop_data = N draws; S_N = 10; a first sample
RunPopulation == Resample(8, [nb EXCEPT !.N = PopN, !.pop_data = PopN], FirstSampleN)

\* S_N = 2; a sample for each experiment
RunExperiments == Resample(9, nb, ExperimentSampleN)

\* S_N = 20; the sample the bootstrap resamples
RunSample == Resample(10, nb, BootSampleN)

\* boot_data = samp_data[np.random.randint(S_N, size=S_N)]
RunBootMean ==
    \E k \in RandInt(nb.S_N) :
        RunCell(11, nb, IndexingUse(nb, nb.S_N, {"samp_data"}, k))

\* N = 16; d1, d2 = N draws each; np.corrcoef(d1, d2)
RunOutlierData ==
    \E k \in RandInt(OutlierN) :
        LET b == [nb EXCEPT !.N = OutlierN, !.d1 = OutlierN, !.d2 = OutlierN]
        IN RunCell(12, b, ElementwiseUse(b, b.N, {"d1", "d2"}, k))

\* index = np.random.randint(N, size=N); d1[index], d2[index]
RunBootCorr ==
    \E k \in RandInt(nb.N) :
        RunCell(13, nb, IndexingUse(nb, nb.N, {"d1", "d2"}, k))

\* N = 16; d1 .. d4 = noise * np.random.rand(N) + np.linspace(.1, top, N)
RunTwoCondData ==
    \E k \in RandInt(TwoCondN) :
        LET b == [nb EXCEPT !.N = TwoCondN, !.d1 = TwoCondN, !.d2 = TwoCondN,
                            !.d3 = TwoCondN, !.d4 = TwoCondN]
        IN RunCell(14, b, ElementwiseUse(b, b.N, {"d1", "d2", "d3", "d4"}, k))

\* index = np.random.randint(N, size=N); d1[index] .. d4[index]
RunBootTwo ==
    \E k \in RandInt(nb.N) :
        RunCell(15, nb, IndexingUse(nb, nb.N, {"d1", "d2", "d3", "d4"}, k))

NotebookNext ==
    \/ \E c \in 1 .. 4 : RunStudyData(c)
    \/ RunSignFlip
    \/ RunCorrData
    \/ RunLabelSwap
    \/ RunPopulation
    \/ RunExperiments
    \/ RunSample
    \/ RunBootMean
    \/ RunOutlierData
    \/ RunBootCorr
    \/ RunTwoCondData
    \/ RunBootTwo

NotebookSpec == Init /\ [][NotebookNext]_vars

\* ------------------------------------------------------------- properties
\* the sign-flip loop has run at least one iteration
SignFlipRan == cell \in {"signflip_loop", "signflip_done"} /\ i > 0

\* C1: every element of the sign-flipped data is the paired difference times
\* exactly +1 or -1, so its magnitude is preserved and it is never multiplied
\* by 0, whatever the draw (a draw of exactly .5 included).
C1_FlipIsPlusOrMinusOne ==
    SignFlipRan =>
        \A k \in 1 .. N :
            \E s \in {1, -1} : rand_data[k] = s * (d1[k] - d2[k])

\* C2: a bootstrap iteration draws one vector of N indices, each in 0 .. N-1
\* (repeats allowed), and every resampled sequence is its input sequence taken at
\* that one vector, so that the pairing of the sequences is kept.
C2_OneIndexVectorForAll ==
    /\ index # <<>> =>
          /\ Len(index) = N
          /\ \A k \in 1 .. N : index[k] \in 0 .. (N - 1)
          /\ Len(tmp1) = N /\ Len(tmp2) = N
          /\ \A k \in 1 .. N : /\ tmp1[k] = d1[index[k] + 1]
                                /\ tmp2[k] = d2[index[k] + 1]
          /\ d3 # <<>> =>
                /\ Len(tmp3) = N /\ Len(tmp4) = N
                /\ \A k \in 1 .. N : /\ tmp3[k] = d3[index[k] + 1]
                                      /\ tmp4[k] = d4[index[k] + 1]
    /\ (samp_data # <<>> /\ rand_u # <<>>) =>
          /\ Len(rand_u) = S_N
          /\ \A k \in 1 .. S_N : rand_u[k] \in 0 .. (S_N - 1)
          /\ Len(boot_data) = S_N
          /\ \A k \in 1 .. S_N : boot_data[k] = samp_data[rand_u[k] + 1]

\* a second iteration of the two-condition bootstrap drew the same index twice,
\* and all four sequences were taken at it
C2_Witness ==
    /\ cell = "boottwo_loop" /\ i = 2 /\ N = 2
    /\ index = <<1, 1>>
    /\ d1[1] # d1[2] /\ d4[1] # d4[2]
    /\ tmp1 = <<d1[2], d1[2]>> /\ tmp2 = <<d2[2], d2[2]>>
    /\ tmp3 = <<d3[2], d3[2]>> /\ tmp4 = <<d4[2], d4[2]>>

\* C3: when the statistic of a label-swap iteration is computed, every index k
\* holds (d1[k], d2[k]) if its own draw was below .5 and (d2[k], d1[k])
\* otherwise; nothing written by an earlier iteration is left in the buffers.
C3_PairSwappedPerDraw ==
    (cell = "labelswap_loop" /\ i < num_randomizations /\ j = N) =>
        /\ Len(rand_u) = N
        /\ draws_used = (i + 1) * N
        /\ \A k \in 1 .. N :
              IF 2 * rand_u[k] < RandDen
              THEN tmp0[k] = d1[k] /\ tmp1[k] = d2[k]
              ELSE tmp0[k] = d2[k] /\ tmp1[k] = d1[k]

\* a second iteration kept the first pair and swapped the second (its draw
\* exactly .5)
C3_Witness ==
    /\ cell = "labelswap_loop" /\ i = 1 /\ j = N /\ N = 2
    /\ d1[1] # d2[1] /\ d1[2] # d2[2]
    /\ rand_u = <<0, 2>>
    /\ tmp0 = <<d1[1], d2[2]>> /\ tmp1 = <<d2[1], d1[2]>>

\* a p-value has been computed from an observed statistic and a null distribution
PValueDone == cell \in {"signflip_done", "labelswap_done"}
Observed == IF cell = "signflip_done" THEN study_t_val ELSE t_val
NullDist == IF cell = "signflip_done" THEN null_t_val ELSE rand_t_val
\* how many null values the observed statistic strictly exceeds
Exceeded == Cardinality({k \in 1 .. Len(NullDist) : Gt(Observed, NullDist[k])})

\* C4 (with K >= 1): the p-value is 2 * (1 - c / K), c the number of null values
\* strictly below the observed statistic; it lies in [0, 2], is 0 exactly when
\* the observed statistic exceeds every null value and 2 exactly when it
\* exceeds none.
C4_PValueFormulaAndRange ==
    (PValueDone /\ num_randomizations >= 1) =>
        LET K == num_randomizations
            p == rand_p_value
        IN /\ Len(NullDist) = K
           /\ p.d > 0
           /\ p.n * K = 2 * (K - Exceeded) * p.d
           /\ 0 <= p.n /\ p.n <= 2 * p.d
           /\ (p.n = 0) <=> (Exceeded = K)
           /\ (p.n = 2 * p.d) <=> (Exceeded = 0)

\* C4 as stated, for every K: the p-value always lies in [0, 2].
C4_AlwaysInRange ==
    PValueDone =>
        /\ rand_p_value.d > 0
        /\ 0 <= rand_p_value.n /\ rand_p_value.n <= 2 * rand_p_value.d

\* of two null values the observed t exceeds one and ties with the other: p = 1
C4_Witness ==
    /\ cell = "signflip_done" /\ num_randomizations = 2
    /\ Exceeded = 1
    /\ \E k \in 1 .. 2 : null_t_val[k] = study_t_val
    /\ rand_p_value = Rat(1, 1)

\* C8: for N >= 2 and differences of non-zero spread, swapping the two inputs
\* negates the mean difference, leaves the standard deviation as it is, and so
\* negates the paired t: pairedT(d1, d2) = -pairedT(d2, d1).
C8_SwapNegatesT ==
    (study_t_val # None /\ N >= 2 /\ VarScaled(Sub(d1, d2)) # 0) =>
        /\ Mean(Sub(d2, d1)) = Neg(Mean(Sub(d1, d2)))
        /\ Std(Sub(d2, d1)) = Std(Sub(d1, d2))
        /\ PairedT(Sub(d2, d1), N) = Neg(study_t_val)

\* two inputs with t = 1 one way round and t = -1 the other
C8_Witness ==
    /\ cell = "signflip_setup" /\ N = 2
    /\ VarScaled(Sub(d1, d2)) # 0
    /\ study_t_val = Root(1, 1, 1)
    /\ PairedT(Sub(d2, d1), N) = Root(-1, 1, 1)

\* C9: for identical inputs (N >= 2) the paired t is 0 or DegenerateInputError
\* is raised, never NaN returned; the same for every statistic of the sign-flip
\* loop, whose difference vector is then all zero.
C9_IdenticalInputsNeverNaN ==
    (study_t_val # None /\ N >= 2 /\ d1 = d2) =>
        \/ cell = "DegenerateInputError"
        \/ /\ study_t_val = Zero
           /\ \A k \in 1 .. Len(null_t_val) : k <= i => null_t_val[k] = Zero

\* C10: the paired t returns a value only for N >= 2 and inputs of one length;
\* otherwise InvalidInputError is raised and nothing is returned.
C10_ShortInputRejected ==
    study_t_val # None => (N >= 2 /\ Len(d1) = Len(d2))

\* the routine a cell belongs to, by its loop count and its result arrays
InLoop ==
    cell \in {"signflip_loop", "labelswap_loop", "bootmean_loop", "bootcorr_loop",
              "boottwo_loop"}
PastLoop ==
    cell \in {"signflip_done", "labelswap_done", "bootmean_done", "bootcorr_done",
              "boottwo_done"}
LoopCount ==
    IF cell \in {"signflip_loop", "signflip_done", "labelswap_loop", "labelswap_done"}
    THEN num_randomizations
    ELSE num_bootstraps
ResultArrays ==
    CASE cell \in {"signflip_loop", "signflip_done"} -> <<null_t_val>>
      [] cell \in {"labelswap_loop", "labelswap_done"} -> <<rand_corr, rand_t_val>>
      [] cell \in {"bootmean_loop", "bootmean_done"} -> <<boot_mean>>
      [] cell \in {"bootcorr_loop", "bootcorr_done"} -> <<corr>>
      [] cell \in {"boottwo_loop", "boottwo_done"} -> <<corr1, corr2>>
      [] OTHER -> <<>>

\* slots 1 .. i of the result have been written once and the others not at all,
\* and past the loop that is all K of them
WrittenOnceUpToI ==
    (InLoop \/ PastLoop) =>
        /\ i <= LoopCount
        /\ PastLoop => i = LoopCount
        /\ Len(writes) = LoopCount
        /\ \A r \in 1 .. Len(ResultArrays) : Len(ResultArrays[r]) = LoopCount
        /\ \A s \in 1 .. LoopCount : writes[s] = IF s <= i THEN 1 ELSE 0

\* control has left the loop: no index is left, or the cell has moved on or
\* stopped on an error
LoopExited ==
    \/ InLoop /\ ~(i < LoopCount)
    \/ PastLoop
    \/ cell = "IndexError"

\* C5: every resampling loop ends, after exactly K iterations for every K >= 0
\* (K = 0 included), with a result of length K each slot of which was written
\* exactly once.
C5_LoopRunsExactlyK ==
    /\ [](WrittenOnceUpToI)
    /\ [](InLoop => <>LoopExited)
    /\ [](LoopExited /\ InLoop => i = LoopCount)

\* a bootstrap loop of two iterations is over and has written both slots once
C5_Witness ==
    /\ cell = "bootcorr_done" /\ num_bootstraps = 2 /\ i = 2
    /\ Len(corr) = 2 /\ writes = <<1, 1>>
    /\ draws_used = 2 * N

\* the result arrays of the second run, in the order of ResultArrays
TwinArrays ==
    CASE cell \in {"labelswap_loop", "labelswap_done"} -> <<twin_out2, twin_out>>
      [] cell \in {"boottwo_loop", "boottwo_done"} -> <<twin_out, twin_out2>>
      [] cell \in {"signflip_loop", "signflip_done", "bootmean_loop", "bootmean_done",
                   "bootcorr_loop", "bootcorr_done"} -> <<twin_out>>
      [] OTHER -> <<>>

\* the draws one iteration takes: one for each element of the data
DrawsPerIteration ==
    IF cell \in {"bootmean_loop", "bootmean_done"} THEN S_N ELSE N

LowerEnd(p) == IF p.kind = "lerp" THEN p.lo ELSE p
UpperEnd(p) == IF p.kind = "lerp" THEN p.hi ELSE p
LerpWellFormed(p) ==
    p.kind = "lerp" => (Gt(p.hi, p.lo) /\ 0 < p.g.n /\ p.g.n < p.g.d)

\* p <= q for two percentiles of statistics: p ends where q begins or before, or
\* both interpolate the same two values and p with the smaller weight
PctLe(p, q) ==
    \/ Le(UpperEnd(p), LowerEnd(q))
    \/ /\ p.kind = "lerp" /\ q.kind = "lerp"
       /\ p.lo = q.lo /\ p.hi = q.hi
       /\ RatLe(p.g, q.g)

\* the interval ci of a non-empty array of means
RatIntervalSound(dist, ci) ==
    /\ RatLe(ci[1], ci[2])
    /\ \E k \in 1 .. Len(dist) : RatLe(dist[k], ci[1])
    /\ \E k \in 1 .. Len(dist) : RatLe(ci[2], dist[k])
    /\ (\A k \in 1 .. Len(dist) : dist[k] = dist[1]) => (ci[1] = dist[1] /\ ci[2] = dist[1])

\* the interval ci of a non-empty array of statistics, all of them numbers
RootIntervalSound(dist, ci) ==
    /\ ~IsNaN(ci[1]) /\ ~IsNaN(ci[2])
    /\ LerpWellFormed(ci[1]) /\ LerpWellFormed(ci[2])
    /\ PctLe(ci[1], ci[2])
    /\ \E k \in 1 .. Len(dist) : Le(dist[k], LowerEnd(ci[1]))
    /\ \E k \in 1 .. Len(dist) : Le(UpperEnd(ci[2]), dist[k])
    /\ (\A k \in 1 .. Len(dist) : dist[k] = dist[1]) => (ci[1] = dist[1] /\ ci[2] = dist[1])

AllNumbers(dist) == \A k \in 1 .. Len(dist) : IsFinite(dist[k])

\* C7: the 2.5th and 97.5th percentiles (linear interpolation between order
\* statistics) of a non-empty distribution of real numbers satisfy
\* lower <= upper, both lie in [min(dist), max(dist)], and both equal v when
\* every value of the distribution is v.
C7_IntervalOrderedInRange ==
    /\ (cell = "bootmean_done" /\ Len(boot_mean) >= 1) => RatIntervalSound(boot_mean, CIs)
    /\ (cell = "bootcorr_done" /\ Len(corr) >= 1 /\ AllNumbers(corr)) =>
          RootIntervalSound(corr, CIs)
    /\ (cell = "boottwo_done" /\ Len(corr1) >= 1 /\ AllNumbers(corr1)) =>
          RootIntervalSound(corr1, CIs_1)
    /\ (cell = "boottwo_done" /\ Len(corr2) >= 1 /\ AllNumbers(corr2)) =>
          RootIntervalSound(corr2, CIs_2)

\* the interval of the two bootstrapped means 1 and 0, in that order: 1/40, 39/40
C7_Witness ==
    /\ cell = "bootmean_done"
    /\ boot_mean = <<Rat(1, 1), Rat(0, 1)>>
    /\ CIs = <<Rat(1, 40), Rat(39, 40)>>

\* |r| = 1 for a correlation r
IsPerfect(r) == IsFinite(r) /\ r.sgn # 0 /\ r.num = r.den

\* C11: the correlation t is returned only when N >= 3 and |r| # 1, otherwise
\* DegenerateInputError is raised; this for the observed data and for every
\* label-swapped pair of the randomization loop, so that no iteration stores an
\* infinite or undefined t in the null distribution.
C11_DegenerateCorrRejected ==
    /\ t_val # None => (N >= 3 /\ ~IsPerfect(corr))
    /\ cell \in {"labelswap_loop", "labelswap_done"} =>
          \A k \in 1 .. i : /\ IsFinite(rand_t_val[k])
                            /\ ~IsPerfect(rand_corr[k])

\* C12: no step of a resampling loop, and not the step that closes it, changes
\* the observed vectors, the sizes, the iteration counts or the observed
\* statistic: only the result arrays, the scratch buffers and the draws change.
C12_LoopsLeaveInputsAlone ==
    [][InLoop => /\ UNCHANGED <<sizeVars, dataVars, obsVars, countVars>>
                 /\ cell = "labelswap_loop" => corr' = corr]_vars

\* two label-swap iterations are over, the last of which swapped every pair in
\* the buffers, and the data and the observed statistics are those of the data cell
C12_Witness ==
    /\ cell = "labelswap_done" /\ num_randomizations = 2 /\ N = 2
    /\ d1 # d2
    /\ tmp0 = d2 /\ tmp1 = d1
    /\ corr = CorrCoef(d1, d2) /\ t_val = CorrT(corr, N)

\* C13: for the notebook's two vectors of 13 values the correlation computed
\* from the integer sums (r^2 = 3764^2 / (4248 * 3446)) satisfies .97 < r < 1,
\* and t = r * sqrt(11) / sqrt(1 - r^2) is positive with t^2 = 11 r^2 / (1 - r^2).
C13_NotebookCorrelation ==
    cell = "corr_observed" =>
        /\ N = 13
        /\ Sum(d1) = 82 /\ Sum(d2) = 86 /\ Sum(Mul(d1, d2)) = 832
        /\ Sum(Mul(d1, d1)) = 844 /\ Sum(Mul(d2, d2)) = 834
        /\ corr = Root(1, 3764 * 3764, 4248 * 3446)
        /\ corr.sgn = 1
        /\ FracGt(corr.num, corr.den, 97 * 97, 100 * 100)
        /\ corr.num < corr.den
        /\ IsFinite(t_val) /\ t_val.sgn = 1
        /\ t_val = Root(1, 11 * corr.num, corr.den - corr.num)

\* the data cell has run on the notebook's vectors: r^2 = 885481 / 914913
\* (r = .9838) and t^2 = 9740291 / 29432 (t = 18.19)
C13_Witness ==
    /\ cell = "corr_observed"
    /\ d1 = NotebookD1 /\ d2 = NotebookD2
    /\ corr = Root(1, 885481, 914913)
    /\ t_val = Root(1, 9740291, 29432)

\* C14: for differences with N >= 2 and non-zero spread the hand-written
\* mean / (population std / sqrt(N - 1)) is the related-samples t of the
\* reference test, mean / (sample std / sqrt(N)): the sign of the mean and
\* t^2 = (N - 1) * sum^2 / (N * sum of squares - sum^2); this for the observed
\* differences and for the sign-flipped differences of an iteration.
C14_HandWrittenIsReference ==
    /\ (study_t_val # None /\ N >= 2 /\ VarScaled(Sub(d1, d2)) # 0) =>
          /\ study_t_val = TTestRel(Sub(d1, d2))
          /\ study_t_val = Root(Sgn(Sum(Sub(d1, d2))),
                                (N - 1) * Sum(Sub(d1, d2)) * Sum(Sub(d1, d2)),
                                VarScaled(Sub(d1, d2)))
    /\ (SignFlipRan /\ N >= 2 /\ VarScaled(rand_data) # 0) =>
          null_t_val[i] = TTestRel(rand_data)

\* an observed t of -1 that the reference test gives too, and an iteration whose
\* flipped differences have t = 1 by both formulas
C14_Witness ==
    /\ cell = "signflip_loop" /\ N = 2 /\ i = 1
    /\ VarScaled(Sub(d1, d2)) # 0 /\ VarScaled(rand_data) # 0
    /\ study_t_val = Root(-1, 1, 1) /\ TTestRel(Sub(d1, d2)) = Root(-1, 1, 1)
    /\ null_t_val[1] = Root(1, 1, 1) /\ TTestRel(rand_data) = Root(1, 1, 1)

\* tmp0 - tmp1 for the label swap keep of (d1, d2): pair k in its own order
\* where keep[k], in the other order where not
SwapDiff(keep) ==
    [k \in 1 .. N |-> IF keep[k] THEN d1[k] - d2[k] ELSE d2[k] - d1[k]]

\* C15: the sign-flipped vector of an iteration is tmp0 - tmp1 for some
\* per-index label swap of (d1, d2), whatever the draws, and has N elements;
\* and every per-index label swap is the outcome of some draws.
C15_FlipIsLabelSwap ==
    /\ SignFlipRan =>
          /\ Len(rand_data) = N
          /\ \E keep \in [1 .. N -> BOOLEAN] : rand_data = SwapDiff(keep)
    /\ cell = "signflip_loop" =>
          \A keep \in [1 .. N -> BOOLEAN] :
              \E u \in [1 .. N -> RandDraws] :
                  SignFlipped(u, Sub(d1, d2)) = SwapDiff(keep)

\* m is a number in [min(samp_data), max(samp_data)]
InSampleRange(m) ==
    /\ m.d > 0
    /\ \E k \in 1 .. Len(samp_data) : RatLe(Rat(samp_data[k], 1), m)
    /\ \E k \in 1 .. Len(samp_data) : RatLe(m, Rat(samp_data[k], 1))

\* the bootstrapped means written so far are in the range of the sample, and
\* are the sample's one value when it has only one
BootMeansInRange ==
    /\ \A k \in 1 .. i : InSampleRange(boot_mean[k])
    /\ (\A k \in 1 .. Len(samp_data) : samp_data[k] = samp_data[1]) =>
          \A k \in 1 .. i : boot_mean[k] = Rat(samp_data[1], 1)

\* C16 (with K >= 1): every bootstrapped mean lies in
\* [min(samp_data), max(samp_data)], whatever indices are drawn, and equals the
\* sample's value when all sample values are equal; after at least one
\* iteration both ends of the 95% interval lie in that range too.
C16_BootMeanInSampleRange ==
    /\ cell \in {"bootmean_loop", "bootmean_done"} => BootMeansInRange
    /\ (cell = "bootmean_done" /\ num_bootstraps >= 1) =>
          InSampleRange(CIs[1]) /\ InSampleRange(CIs[2])

\* C16 as stated, for every K: the means and both ends of the interval always
\* lie in the range of the sample.
C16_IntervalAlwaysInRange ==
    /\ cell \in {"bootmean_loop", "bootmean_done"} => BootMeansInRange
    /\ cell = "bootmean_done" => InSampleRange(CIs[1]) /\ InSampleRange(CIs[2])

\* the sample (0, 1) resampled twice, to (0, 1) or (1, 0) and then to (1, 1):
\* means 1/2 and 1, interval from 41/80 to 79/80
C16_Witness ==
    /\ cell = "bootmean_done" /\ num_bootstraps = 2
    /\ samp_data = <<0, 1>>
    /\ boot_data = <<1, 1>>
    /\ boot_mean = <<Rat(1, 2), Rat(1, 1)>>
    /\ CIs = <<Rat(41, 80), Rat(79, 80)>>

\* C17: with the cells run top to bottom, wherever N or S_N sizes a draw,
\* indexes a vector or scales a statistic, the vectors in use all have that
\* length and the index is within it, so that no cell stops on an error; and
\* d1 and d2 have one length throughout.
C17_SizesAgreeTopToBottom ==
    /\ nb_use.error = "none"
    /\ nb_cell # 0
    /\ \A l \in nb_use.lens : l = nb_use.size
    /\ nb_use.lens # {} => nb_use.idx \in 0 .. (nb_use.size - 1)
    /\ nb.d1 = nb.d2

\* the run is over: the last cell took d1 .. d4, all of the 16 values N then
\* stood for, at the index 15, after N had been 100, 13, 100000 and 16
C17_Witness ==
    /\ nb_cell = 16
    /\ nb.N = TwoCondN /\ nb.S_N = BootSampleN /\ nb.pop_data = PopN
    /\ nb_use = Use(16, {16}, 15, "none")

====
